---- MODULE Spec2Model ----
(***************************************************************************)
(* Model of bitcoin_rds_utils.py: the connection pool and the              *)
(* with_db_connection wrapper, the raw tick insert, the hourly OHLCV       *)
(* aggregation with its batched upsert, and the price-history read.        *)
(*                                                                         *)
(* Time is counted in slots, SlotsPerHour slots to the hour.  Prices are   *)
(* integers in units of the NUMERIC(20,8) scale, volumes are integers in   *)
(* units of the NUMERIC(24,2) scale (cents).  A database transaction is    *)
(* the list of statements a caller executed and has not committed; a row   *)
(* written by an open transaction is locked against the other caller until *)
(* that transaction commits or rolls back (READ COMMITTED).                *)
(***************************************************************************)
EXTENDS Integers, Sequences, FiniteSets, TLC

\* ------------------------------------------------------------------ bounds
SlotsPerHour == 3
HoursPerDay == 24
MaxAdvance == 1
MaxPrice == 2
MaxVolume == 2
MaxDays == 1
MaxInitTicks == 1
MaxHourTicks == 3
SmallBatch == 2
batch_size == 100
MaxLen == 3
MaxSeriesPrice == 3
MaxWindow == 3
MaxStd == 2
MaxSpan == 2
MaxFetched == 2
MaxBackfills == 1
MaxRetries == 3
MaxDelay == 1
MaxConnections == 2

SlotsPerDay == HoursPerDay * SlotsPerHour
\* the clock starts in the last slot of the second hour of the second day:
\* one step of the clock begins a new hour
Now0 == SlotsPerDay + 2 * SlotsPerHour - 1
\* Timestamps of the ticks stored before the first call.  One day before
\* Now0 is the last slot of the second hour, which is not younger than one
\* day; the third hour is, until the clock goes on and the limit falls in it.
SecondHour == {2 * SlotsPerHour - 1}
ThirdHour == (2 * SlotsPerHour) .. (3 * SlotsPerHour - 1)
FourthHour == {3 * SlotsPerHour}
FifthHour == {4 * SlotsPerHour}
CurrentHour == {Now0 - 1}
OldTimes == SecondHour \cup ThirdHour \cup CurrentHour
AggTimes == SecondHour \cup ThirdHour \cup FourthHour \cup FifthHour
ConcTimes == FourthHour \cup CurrentHour
Prices == 1..MaxPrice
Volumes == 1..MaxVolume
DaysArgs == 0..MaxDays
Procs == {1, 2}
SeqProcs == {1}
None == 0

Tick(ts, price, vol) == [timestamp |-> ts, price_usd |-> price, volume_usd |-> vol]
Ticks(times) == [timestamp : times, price_usd : Prices, volume_usd : Volumes]

\* ------------------------------------------------------------------ helpers
\* date_trunc('hour', timestamp): the first slot of the hour
\* (variant: the timestamp itself, not truncated)
NoTrunc(ts) == ts
DateTruncHour(ts) == (ts \div SlotsPerHour) * SlotsPerHour

\* timestamp > NOW() - INTERVAL 'days days'
\* (variant: the comparison reversed)
InWindowFlipped(ts, clock, days) == ts < clock - days * SlotsPerDay
InWindow(ts, clock, days) == ts > clock - days * SlotsPerDay

Timestamps(table) == {r.timestamp : r \in table}

RECURSIVE SortAsc(_)
\* ORDER BY on a set of distinct integers
SortAsc(S) ==
  IF S = {} THEN <<>>
  ELSE LET m == CHOOSE x \in S : \A y \in S : x <= y
       IN <<m>> \o SortAsc(S \ {m})

\* SELECT DISTINCT date_trunc('hour', timestamp) ... NOT IN (...) ORDER BY hour
\* (variants: without the NOT IN filter, and with IN for NOT IN)
HoursQueryUnfiltered(rawT, hourlyT, clock, days) ==
  SortAsc({DateTruncHour(t.timestamp) : t \in
             {t \in rawT : InWindow(t.timestamp, clock, days)}})
HoursQueryIn(rawT, hourlyT, clock, days) ==
  SortAsc({DateTruncHour(t.timestamp) : t \in
             {t \in rawT : /\ InWindow(t.timestamp, clock, days)
                           /\ DateTruncHour(t.timestamp) \in Timestamps(hourlyT)}})
HoursQuery(rawT, hourlyT, clock, days) ==
  SortAsc({DateTruncHour(t.timestamp) : t \in
             {t \in rawT : /\ InWindow(t.timestamp, clock, days)
                           /\ DateTruncHour(t.timestamp) \notin Timestamps(hourlyT)}})

\* SELECT price_usd, volume_usd ... WHERE timestamp >= hour AND
\* timestamp < hour + 1 hour ORDER BY timestamp
HourDataQuery(rawT, hour) ==
  LET inHour == {t \in rawT : t.timestamp >= hour /\ t.timestamp < hour + SlotsPerHour}
      order == SortAsc(Timestamps(inHour))
  IN [i \in 1..Len(order) |-> CHOOSE t \in inHour : t.timestamp = order[i]]

RECURSIVE SumVolume(_)
SumVolume(rows) ==
  IF rows = <<>> THEN 0 ELSE Head(rows).volume_usd + SumVolume(Tail(rows))

MaxOf(S) == CHOOSE x \in S : \A y \in S : y <= x
MinOf(S) == CHOOSE x \in S : \A y \in S : x <= y

\* a value num/den stored in a NUMERIC(24,2) column, in cents: rounded half up
Numeric2(num, den) == (2 * num + den) \div (2 * den)

\* the tuple appended to batch_data, as hourly_bitcoin_prices stores it
\* (variant: open and close exchanged)
BucketSwapped(hour, rows) ==
  [timestamp |-> hour,
   open_price_usd |-> rows[Len(rows)].price_usd,
   high_price_usd |-> MaxOf({rows[i].price_usd : i \in 1..Len(rows)}),
   low_price_usd |-> MinOf({rows[i].price_usd : i \in 1..Len(rows)}),
   close_price_usd |-> rows[1].price_usd,
   volume_usd |-> Numeric2(SumVolume(rows), Len(rows))]
Bucket(hour, rows) ==
  [timestamp |-> hour,
   open_price_usd |-> rows[1].price_usd,
   high_price_usd |-> MaxOf({rows[i].price_usd : i \in 1..Len(rows)}),
   low_price_usd |-> MinOf({rows[i].price_usd : i \in 1..Len(rows)}),
   close_price_usd |-> rows[Len(rows)].price_usd,
   volume_usd |-> Numeric2(SumVolume(rows), Len(rows))]

\* INSERT ... ON CONFLICT (timestamp) DO UPDATE SET ... = EXCLUDED....
\* (variants: no ON CONFLICT clause, and volume_usd left out of SET)
PlainInsert(table, row) == table \cup {row}
KeepVolumeUpsert(table, row) ==
  IF row.timestamp \in Timestamps(table)
    THEN {IF r.timestamp = row.timestamp
            THEN [row EXCEPT !.volume_usd = r.volume_usd] ELSE r : r \in table}
    ELSE table \cup {row}
Upsert(table, row) ==
  IF row.timestamp \in Timestamps(table)
    THEN {IF r.timestamp = row.timestamp THEN row ELSE r : r \in table}
    ELSE table \cup {row}

RECURSIVE ApplyRows(_, _)
\* the rows of a transaction, in statement order, applied at its commit
ApplyRows(table, rows) ==
  IF rows = <<>> THEN table
  ELSE ApplyRows(Upsert(table, Head(rows)), Tail(rows))

\* conn.commit() / conn.rollback() of the aggregation's transaction
Commit(table, rows) == ApplyRows(table, rows)
\* (variant of the rollback: the rows are kept)
CommitInstead(table, rows) == ApplyRows(table, rows)
Rollback(table, rows) == table

\* if batch_data: execute_batch_insert(cur, batch_data)  (after the loop)
\* (variant: the remaining records are not inserted)
DropRemaining(batch) == <<>>
RemainingBatch(batch) == IF batch # <<>> THEN batch ELSE <<>>

\* ------------------------------------------------------------------ state
VARIABLES
  now,          \* NOW() / datetime.utcnow(), in slots
  raw,          \* committed rows of raw_bitcoin_prices
  hourly,       \* committed rows of hourly_bitcoin_prices
  pool,         \* _connection_pool: None or the pool it names
  npools,       \* pools created so far
  pc,           \* each caller's position
  op,           \* the wrapped function a caller is in
  days,         \* days_to_aggregate / days
  use_hourly,   \* get_bitcoin_price_history's flag
  data,         \* insert_raw_bitcoin_data's record
  bsize,        \* batch_size of the invocation
  conn,         \* wrapper's conn: None or a connection
  connState,    \* "none", "open", "returned" (to the pool) or "closed"
  released,     \* calls of release_db_connection in this wrapper call
  hours,        \* the hours the invocation aggregates, ascending
  pos,          \* index of the for loop in hours
  batch_data,   \* tuples waiting for execute_batch_insert
  txn,          \* hourly rows written and not committed, in order
  ptick,        \* raw rows written and not committed
  result,       \* "none" while running, then "ok" or "raised"
  ret,          \* the value returned
  pre,          \* hourly and raw as they were when the call was made
  wrote,        \* rows the invocation passed to execute_batch_insert
  replaced,     \* rows of hourly an upsert of the invocation overwrote
  lastWriter,   \* the caller whose aggregation committed last
  last,         \* the caller's previous call, as it ended
  track         \* which history is kept: "calls" (pre, last) or "writers"
                \* (replaced, lastWriter)

\* the state of the data analysis functions
VARIABLES
  df,           \* the caller's DataFrame
  df_before,    \* the caller's DataFrame as it was when the function was called
  fn,           \* the analysis function called, "none" before the call
  args,         \* its window, num_std and periods
  out           \* the DataFrame it returned

\* the state of fetch_and_store_historical_bitcoin_data
VARIABLES
  hist_pc,           \* the caller's position in it, "idle" outside it
  hist_days,         \* days
  historical_data,   \* the datapoints built from the API's answer
  records_inserted,  \* its counter
  hist_pending,      \* raw rows it inserted and has not committed
  hist_result,       \* "none" while running, then "returned" or "raised"
  hist_failure,      \* the exception it caught after the DELETE: "none", "api"
                     \* or "insert"
  hist_pre,          \* raw and hourly as they were when the call was made
  kept,              \* the rows stored before the call and not deleted since
  cleared,           \* the call has committed its DELETE
  backfills          \* calls of it that have ended

\* the state of fetch_bitcoin_data_from_coingecko
VARIABLES
  fetch_pc,        \* the caller's position in it, "idle" outside it
  retry_count,     \* its arguments
  retry_delay,
  attempts,        \* its locals
  last_exception,
  fetch_result,    \* "none" while running, then "returned" or "raised"
  raised,          \* the exception it raised
  log              \* the requests made and the waits, in order

\* the state of the callers of get_db_connection_pool; _connection_pool is
\* the variable pool, and npools counts the pools created
VARIABLES
  pool_pc,          \* each thread's position in it, "idle" outside it
  max_connections,  \* its argument (min_connections is 1)
  new_pool,         \* the pool its constructor call returned, not yet stored
  pool_obj,         \* the pool it returned
  pool_result,      \* "none" while running, then "returned" or "raised"
  made              \* max_connections of each pool created, by pool

dbVars == <<now, raw, hourly, pool, npools, pc, op, days, use_hourly, data, bsize,
          conn, connState, released, hours, pos, batch_data, txn, ptick, result,
          ret, pre, wrote, replaced, lastWriter, last, track>>
indVars == <<df, df_before, fn, args, out>>
histVars == <<hist_pc, hist_days, historical_data, records_inserted, hist_pending,
             hist_result, hist_failure, hist_pre, kept, cleared, backfills>>
fetchVars == <<fetch_pc, retry_count, retry_delay, attempts, last_exception,
              fetch_result, raised, log>>
poolVars == <<pool_pc, max_connections, new_pool, pool_obj, pool_result, made>>
otherVars == <<indVars, histVars, fetchVars, poolVars>>
vars == <<dbVars, otherVars>>

Connection == 1
NoCall == [op |-> "none", result |-> "none", days |-> 0, before |-> {}, after |-> {},
           partway |-> FALSE]
\* pre before a call: the tables when the call was made, and the NOW() of
\* the hours query once it has run
NoClock == -1
NoPre == [hourly |-> {}, raw |-> {}, clock |-> NoClock]
NoData == Tick(0, 0, 0)

TicksAt(T) == {{Tick(t, f[t][1], f[t][2]) : t \in T} : f \in [T -> Prices \X Volumes]}

\* the stored ticks before the first call, timestamps unique
\* (raw_bitcoin_prices.timestamp is UNIQUE): at most MaxInitTicks of them
InitRaws ==
  UNION {TicksAt(T) : T \in {T \in SUBSET OldTimes : Cardinality(T) <= MaxInitTicks}}

\* at most MaxHourTicks of them: three ticks of one hour, a tick in each of
\* three hours, and what lies between
InitRawsAgg ==
  UNION {TicksAt(T) : T \in {T \in SUBSET AggTimes :
                               Cardinality(T) <= MaxHourTicks}}

\* at most MaxInitTicks of them, in the fourth hour or in the current hour
InitRawsConc ==
  UNION {TicksAt(T) : T \in {T \in SUBSET ConcTimes :
                               Cardinality(T) <= MaxInitTicks}}

Idle ==
  /\ now = Now0
  /\ hourly = {}
  /\ pool = None
  /\ npools = 0
  /\ pc = [p \in Procs |-> "idle"]
  /\ op = [p \in Procs |-> "none"]
  /\ days = [p \in Procs |-> 0]
  /\ use_hourly = [p \in Procs |-> FALSE]
  /\ data = [p \in Procs |-> NoData]
  /\ bsize = [p \in Procs |-> batch_size]
  /\ conn = [p \in Procs |-> None]
  /\ connState = [p \in Procs |-> "none"]
  /\ released = [p \in Procs |-> 0]
  /\ hours = [p \in Procs |-> <<>>]
  /\ pos = [p \in Procs |-> 1]
  /\ batch_data = [p \in Procs |-> <<>>]
  /\ txn = [p \in Procs |-> <<>>]
  /\ ptick = [p \in Procs |-> {}]
  /\ result = [p \in Procs |-> "none"]
  /\ ret = [p \in Procs |-> {}]
  /\ pre = [p \in Procs |-> NoPre]
  /\ wrote = [p \in Procs |-> {}]
  /\ replaced = [p \in Procs |-> {}]
  /\ lastWriter = None
  /\ last = [p \in Procs |-> NoCall]

\* no data analysis function has been called, on an empty DataFrame
NoArgs == [window |-> 0, num_std |-> 0, fast |-> 0, slow |-> 0, signal |-> 0]
IndIdle ==
  /\ df = <<>>
  /\ df_before = <<>>
  /\ fn = "none"
  /\ args = NoArgs
  /\ out = <<>>

\* the caller is not in fetch_and_store_historical_bitcoin_data
HistIdle ==
  /\ hist_pc = "idle"
  /\ hist_days = 0
  /\ historical_data = <<>>
  /\ records_inserted = 0
  /\ hist_pending = {}
  /\ hist_result = "none"
  /\ hist_failure = "none"
  /\ hist_pre = NoPre
  /\ kept = {}
  /\ cleared = FALSE
  /\ backfills = 0

\* last_exception = None
NoException == [kind |-> "none", attempt |-> 0]
\* the caller is not in fetch_bitcoin_data_from_coingecko
FetchIdle ==
  /\ fetch_pc = "idle"
  /\ retry_count = 0
  /\ retry_delay = 0
  /\ attempts = 0
  /\ last_exception = NoException
  /\ fetch_result = "none"
  /\ raised = NoException
  /\ log = <<>>

\* no thread is in get_db_connection_pool
PoolIdle ==
  /\ pool_pc = [t \in Procs |-> "idle"]
  /\ max_connections = [t \in Procs |-> 0]
  /\ new_pool = [t \in Procs |-> None]
  /\ pool_obj = [t \in Procs |-> None]
  /\ pool_result = [t \in Procs |-> "none"]
  /\ made = <<>>

OthersIdle == IndIdle /\ HistIdle /\ FetchIdle /\ PoolIdle

Init == raw \in InitRaws /\ track = "calls" /\ Idle /\ OthersIdle
InitAgg == raw \in InitRawsAgg /\ track = "calls" /\ Idle /\ OthersIdle
InitWrapped == raw \in InitRawsConc /\ track = "calls" /\ Idle /\ OthersIdle
InitConc == raw \in InitRawsConc /\ track = "writers" /\ Idle /\ OthersIdle

\* ------------------------------------------------------------------ connection
\* what every step of a call leaves alone
Frame == UNCHANGED <<now, op, days, use_hourly, data, bsize, pre, last, track, otherVars>>
NoDb == UNCHANGED <<raw, hourly, txn, ptick, wrote, replaced, lastWriter>>
NoAgg == UNCHANGED <<hours, pos, batch_data>>
\* the body of aggregate_hourly_data has ended: its locals are gone
EndAgg ==
  /\ hours' = [p \in Procs |-> IF pc'[p] = "release" THEN <<>> ELSE hours[p]]
  /\ pos' = [p \in Procs |-> IF pc'[p] = "release" THEN 1 ELSE pos[p]]
  /\ batch_data' = [p \in Procs |-> IF pc'[p] = "release" THEN <<>> ELSE batch_data[p]]

BodyOf(name) ==
  CASE name = "aggregate" -> "agg_hours"
    [] name = "insert" -> "ins_exec"
    [] name = "history" -> "hist_read"

\* get_db_connection(), by its outcome:
\*   "conn"   the pool exists or is created, and getconn() gives a connection,
\*            or getconn() raises and psycopg2.connect gives a direct one
\*   "raise"  the pool cannot be created, or getconn() and connect both raise
Outcomes == {"conn", "raise"}

\* get_db_connection_pool(): the global after the call that created the pool
PoolAfter(poolNow, created, outcome) ==
  IF poolNow = None /\ outcome # "raise" THEN created + 1 ELSE poolNow

\* wrapper(*args): conn = None; conn = get_db_connection(); then the body,
\* or the finally when get_db_connection raised
Enter(p, name, outcome) ==
  /\ pc[p] = "idle"
  /\ hist_pc = "idle"
  /\ op' = [op EXCEPT ![p] = name]
  /\ pre' = IF track = "calls"
              THEN [pre EXCEPT ![p] = [hourly |-> hourly, raw |-> raw, clock |-> NoClock]]
              ELSE pre
  /\ pool' = PoolAfter(pool, npools, outcome)
  /\ npools' = IF pool' # pool THEN npools + 1 ELSE npools
  /\ conn' = [conn EXCEPT ![p] = IF outcome = "raise" THEN None ELSE Connection]
  /\ connState' = [connState EXCEPT ![p] = IF outcome = "raise" THEN "none" ELSE "open"]
  /\ result' = [result EXCEPT ![p] = IF outcome = "raise" THEN "raised" ELSE "none"]
  /\ pc' = [pc EXCEPT ![p] = IF outcome = "raise" THEN "release" ELSE BodyOf(name)]
  /\ UNCHANGED <<now, raw, hourly, txn, ptick, lastWriter, last, track>>
  /\ UNCHANGED <<released, hours, pos, batch_data, ret, wrote, replaced, otherVars>>

\* aggregate_hourly_data(days_to_aggregate), batch_size = 100
CallAggregate(p) ==
  /\ \E outcome \in Outcomes : Enter(p, "aggregate", outcome)
  /\ \E d \in DaysArgs : days' = [days EXCEPT ![p] = d]
  /\ bsize' = [bsize EXCEPT ![p] = batch_size]
  /\ UNCHANGED <<use_hourly, data>>

\* the same with a batch size that the few hours of the model fill
CallAggregateSmallBatch(p) ==
  /\ \E outcome \in Outcomes : Enter(p, "aggregate", outcome)
  /\ \E d \in DaysArgs : days' = [days EXCEPT ![p] = d]
  /\ \E b \in 1..SmallBatch : bsize' = [bsize EXCEPT ![p] = b]
  /\ UNCHANGED <<use_hourly, data>>

\* data comes from fetch_bitcoin_data_from_coingecko: timestamp = utcnow()
CallInsert(p) ==
  /\ \E outcome \in Outcomes : Enter(p, "insert", outcome)
  /\ \E pr \in Prices, v \in Volumes : data' = [data EXCEPT ![p] = Tick(now, pr, v)]
  /\ UNCHANGED <<days, use_hourly, bsize>>

CallHistory(p) ==
  /\ \E outcome \in Outcomes : Enter(p, "history", outcome)
  /\ \E d \in DaysArgs : days' = [days EXCEPT ![p] = d]
  /\ \E h \in BOOLEAN : use_hourly' = [use_hourly EXCEPT ![p] = h]
  /\ UNCHANGED <<data, bsize>>

\* release_db_connection(conn): putconn, and close when putconn raises (it
\* does for a direct connection, which is not the pool's) or when there is
\* no pool
ReleaseState(c, poolNow, putOk, st) ==
  IF c = None THEN st
  ELSE IF poolNow # None /\ putOk THEN "returned" ELSE "closed"

\* finally: if conn is not None
\* (variant: released only when the function returned)
ReleaseOnlyOnReturn(c, res) == c # None /\ res = "ok"
ShouldRelease(c, res) == c # None

\* the wrapper's finally: if conn is not None: release_db_connection(conn)
FinallyRelease(p) ==
  /\ pc[p] = "release"
  /\ IF ShouldRelease(conn[p], result[p])
       THEN /\ \E putOk \in BOOLEAN :
                 connState' = [connState EXCEPT ![p] =
                                 ReleaseState(conn[p], pool, putOk, connState[p])]
            /\ released' = [released EXCEPT ![p] = @ + 1]
       ELSE UNCHANGED <<connState, released>>
  /\ pc' = [pc EXCEPT ![p] = "done"]
  /\ UNCHANGED <<pool, npools, conn, result, ret>>
  /\ Frame /\ NoDb /\ NoAgg

\* the wrapper has returned or raised; the caller goes on
Return(p) ==
  /\ pc[p] = "done"
  /\ pc' = [pc EXCEPT ![p] = "idle"]
  /\ last' = [last EXCEPT ![p] =
       IF track = "calls" /\ op[p] = "aggregate"
         THEN [op |-> op[p], result |-> result[p], days |-> days[p],
               before |-> IF result[p] = "raised" THEN pre[p].hourly ELSE {},
               after |-> hourly,
               partway |-> result[p] = "raised" /\ wrote[p] # {}]
         ELSE NoCall]
  /\ op' = [op EXCEPT ![p] = "none"]
  /\ days' = [days EXCEPT ![p] = 0]
  /\ use_hourly' = [use_hourly EXCEPT ![p] = FALSE]
  /\ data' = [data EXCEPT ![p] = NoData]
  /\ bsize' = [bsize EXCEPT ![p] = batch_size]
  /\ conn' = [conn EXCEPT ![p] = None]
  /\ connState' = [connState EXCEPT ![p] = "none"]
  /\ released' = [released EXCEPT ![p] = 0]
  /\ hours' = [hours EXCEPT ![p] = <<>>]
  /\ pos' = [pos EXCEPT ![p] = 1]
  /\ batch_data' = [batch_data EXCEPT ![p] = <<>>]
  /\ result' = [result EXCEPT ![p] = "none"]
  /\ ret' = [ret EXCEPT ![p] = {}]
  /\ pre' = [pre EXCEPT ![p] = NoPre]
  /\ wrote' = [wrote EXCEPT ![p] = {}]
  /\ replaced' = [replaced EXCEPT ![p] = {}]
  /\ UNCHANGED <<now, raw, hourly, pool, npools, txn, ptick, lastWriter, track, otherVars>>

\* ------------------------------------------------------------------ aggregate_hourly_data
\* the hours whose row another caller's open transaction has written
LockedByOthers(p) == UNION {Timestamps({txn[q][i] : i \in 1..Len(txn[q])}) : q \in Procs \ {p}}

RowSet(rows) == {rows[i] : i \in 1..Len(rows)}

\* cur.execute(hours_query, (days_to_aggregate,)); if not hours: return
AggHours(p) ==
  /\ pc[p] = "agg_hours"
  /\ LET hs == HoursQuery(raw, hourly, now, days[p])
     IN /\ hours' = [hours EXCEPT ![p] = hs]
        /\ IF hs = <<>>
             THEN /\ pc' = [pc EXCEPT ![p] = "release"]
                  /\ result' = [result EXCEPT ![p] = "ok"]
             ELSE /\ pc' = [pc EXCEPT ![p] = "agg_loop"]
                  /\ UNCHANGED result
  /\ pre' = IF track = "calls" THEN [pre EXCEPT ![p].clock = now] ELSE pre
  /\ UNCHANGED <<pos, batch_data>>
  /\ UNCHANGED <<pool, npools, conn, connState, released, ret>>
  /\ UNCHANGED <<now, op, days, use_hourly, data, bsize, last, track, otherVars>>
  /\ NoDb

\* one turn of "for hour in hours": the hour's rows, its tuple, the batch test
AggHour(p) ==
  /\ pc[p] = "agg_loop"
  /\ pos[p] <= Len(hours[p])
  /\ LET hour == hours[p][pos[p]]
         rows == HourDataQuery(raw, hour)
         batch == IF rows = <<>> THEN batch_data[p]
                  ELSE Append(batch_data[p], Bucket(hour, rows))
     IN /\ batch_data' = [batch_data EXCEPT ![p] = batch]
        /\ pc' = [pc EXCEPT ![p] =
                    IF rows # <<>> /\ Len(batch) >= bsize[p] THEN "agg_insert"
                    ELSE "agg_loop"]
  /\ pos' = [pos EXCEPT ![p] = @ + 1]
  /\ UNCHANGED <<pool, npools, conn, connState, released, result, ret, hours>>
  /\ Frame /\ NoDb

\* after the loop: the remaining records, then conn.commit()
AggLoopEnd(p) ==
  /\ pc[p] = "agg_loop"
  /\ pos[p] > Len(hours[p])
  /\ LET rest == RemainingBatch(batch_data[p])
     IN /\ batch_data' = [batch_data EXCEPT ![p] = rest]
        /\ pc' = [pc EXCEPT ![p] = IF rest # <<>> THEN "agg_insert" ELSE "agg_commit"]
  /\ UNCHANGED <<pool, npools, conn, connState, released, result, ret, hours, pos>>
  /\ Frame /\ NoDb

\* execute_batch_insert: one statement of cursor.executemany.  It waits while
\* another open transaction holds the row of the same hour.
AggInsertRow(p) ==
  /\ pc[p] = "agg_insert"
  /\ batch_data[p] # <<>>
  /\ LET row == Head(batch_data[p])
     IN /\ row.timestamp \notin LockedByOthers(p)
        /\ txn' = [txn EXCEPT ![p] = Append(@, row)]
        /\ wrote' = [wrote EXCEPT ![p] = @ \cup {row}]
        /\ replaced' = [replaced EXCEPT ![p] =
                          @ \cup {r \in hourly : r.timestamp = row.timestamp}]
  /\ batch_data' = [batch_data EXCEPT ![p] = Tail(@)]
  /\ pc' = [pc EXCEPT ![p] = IF Tail(batch_data[p]) = <<>> THEN "agg_loop" ELSE "agg_insert"]
  /\ UNCHANGED <<pool, npools, conn, connState, released, result, ret, hours, pos>>
  /\ UNCHANGED <<raw, hourly, ptick, lastWriter>>
  /\ Frame

\* conn.commit()
AggCommit(p) ==
  /\ pc[p] = "agg_commit"
  /\ hourly' = Commit(hourly, txn[p])
  /\ lastWriter' = IF track = "writers" THEN p ELSE lastWriter
  /\ txn' = [txn EXCEPT ![p] = <<>>]
  /\ result' = [result EXCEPT ![p] = "ok"]
  /\ pc' = [pc EXCEPT ![p] = "release"]
  /\ UNCHANGED <<pool, npools, conn, connState, released, ret>>
  /\ UNCHANGED <<raw, ptick, wrote, replaced>>
  /\ Frame /\ EndAgg

\* except Exception: conn.rollback(); raise  (a query, an insert or the
\* commit failed)
AggRaise(p) ==
  /\ pc[p] \in {"agg_hours", "agg_loop", "agg_insert", "agg_commit"}
  /\ hourly' = Rollback(hourly, txn[p])
  /\ txn' = [txn EXCEPT ![p] = <<>>]
  /\ result' = [result EXCEPT ![p] = "raised"]
  /\ pc' = [pc EXCEPT ![p] = "release"]
  /\ UNCHANGED <<pool, npools, conn, connState, released, ret>>
  /\ UNCHANGED <<raw, ptick, wrote, replaced, lastWriter>>
  /\ Frame /\ EndAgg

\* ------------------------------------------------------------------ insert_raw_bitcoin_data
PendingTimes(p) == UNION {Timestamps(ptick[q]) : q \in Procs \ {p}}

\* cur.execute(insert_sql, ...): waits for an open insert of the same
\* timestamp.  A stored tick of that timestamp makes it raise (UNIQUE).
InsExec(p) ==
  /\ pc[p] = "ins_exec"
  /\ data[p].timestamp \notin PendingTimes(p)
  /\ IF data[p].timestamp \in Timestamps(raw)
       THEN /\ result' = [result EXCEPT ![p] = "raised"]
            /\ pc' = [pc EXCEPT ![p] = "release"]
            /\ UNCHANGED ptick
       ELSE /\ ptick' = [ptick EXCEPT ![p] = {data[p]}]
            /\ pc' = [pc EXCEPT ![p] = "ins_commit"]
            /\ UNCHANGED result
  /\ UNCHANGED <<pool, npools, conn, connState, released, ret>>
  /\ UNCHANGED <<raw, hourly, txn, wrote, replaced, lastWriter>>
  /\ Frame /\ NoAgg

\* conn.commit(); return record_id
InsCommit(p) ==
  /\ pc[p] = "ins_commit"
  /\ raw' = raw \cup ptick[p]
  /\ ptick' = [ptick EXCEPT ![p] = {}]
  /\ result' = [result EXCEPT ![p] = "ok"]
  /\ ret' = [ret EXCEPT ![p] = Timestamps(ptick[p])]
  /\ pc' = [pc EXCEPT ![p] = "release"]
  /\ UNCHANGED <<pool, npools, conn, connState, released>>
  /\ UNCHANGED <<hourly, txn, wrote, replaced, lastWriter>>
  /\ Frame /\ NoAgg

\* except Exception: conn.rollback(); raise
InsRaise(p) ==
  /\ pc[p] \in {"ins_exec", "ins_commit"}
  /\ ptick' = [ptick EXCEPT ![p] = {}]
  /\ result' = [result EXCEPT ![p] = "raised"]
  /\ pc' = [pc EXCEPT ![p] = "release"]
  /\ UNCHANGED <<pool, npools, conn, connState, released, ret>>
  /\ UNCHANGED <<raw, hourly, txn, wrote, replaced, lastWriter>>
  /\ Frame /\ NoAgg

\* ------------------------------------------------------------------ get_bitcoin_price_history
\* pd.read_sql_query(query, conn, params=(days,)): the timestamps returned
HistoryQuery(rawT, hourlyT, clock, d, hourlyFlag) ==
  {ts \in Timestamps(IF hourlyFlag THEN hourlyT ELSE rawT) : InWindow(ts, clock, d)}

HistRead(p) ==
  /\ pc[p] = "hist_read"
  /\ ret' = [ret EXCEPT ![p] = HistoryQuery(raw, hourly, now, days[p], use_hourly[p])]
  /\ result' = [result EXCEPT ![p] = "ok"]
  /\ pc' = [pc EXCEPT ![p] = "release"]
  /\ UNCHANGED <<pool, npools, conn, connState, released>>
  /\ Frame /\ NoDb /\ NoAgg

\* except Exception: raise
HistRaise(p) ==
  /\ pc[p] = "hist_read"
  /\ result' = [result EXCEPT ![p] = "raised"]
  /\ pc' = [pc EXCEPT ![p] = "release"]
  /\ UNCHANGED <<pool, npools, conn, connState, released, ret>>
  /\ Frame /\ NoDb /\ NoAgg

\* ------------------------------------------------------------------ fetch_and_store_historical_bitcoin_data
\* Timestamps of the datapoints the API returns: two slots of the third hour
FetchTimes == {2 * SlotsPerHour, 2 * SlotsPerHour + 1}
\* historical_data: a datapoint for each price the API returned, in the
\* API's ascending order of time
ApiData ==
  UNION {{[i \in 1..Cardinality(T) |->
             CHOOSE t \in T : t.timestamp = SortAsc(Timestamps(T))[i]] :
            T \in TicksAt(Ts)} :
         Ts \in {Ts \in SUBSET FetchTimes : Cardinality(Ts) <= MaxFetched}}

\* delete_sql = "DELETE FROM raw_bitcoin_prices": the rows that remain
\* (variant: only the rows of the past days are deleted)
DeleteInRange(rawT, clock, d) == {t \in rawT : ~InWindow(t.timestamp, clock, d)}
DeleteSql(rawT, clock, d) == {}

\* conn.rollback() in the except of the inserts: the rows that are stored
\* (variant: the rows inserted so far stay)
HistKeepInserted(rawT, pending) == rawT \cup pending
HistRollback(rawT, pending) == rawT

\* what no step of the call changes
HistFrame ==
  UNCHANGED <<now, hourly, pc, op, days, use_hourly, data, bsize, conn, connState,
              released, hours, pos, batch_data, txn, ptick, result, ret, pre, wrote,
              replaced, lastWriter, last, track, indVars, fetchVars, poolVars>>

\* the call, and conn = get_db_connection() before the first try: when it
\* raises, the call raises
HistCall ==
  /\ hist_pc = "idle"
  /\ \A p \in SeqProcs : pc[p] = "idle"
  /\ backfills < MaxBackfills
  /\ \E d \in DaysArgs : hist_days' = d
  /\ \E outcome \in Outcomes :
       /\ pool' = PoolAfter(pool, npools, outcome)
       /\ npools' = IF pool' # pool THEN npools + 1 ELSE npools
       /\ hist_pc' = IF outcome = "raise" THEN "done" ELSE "delete"
       /\ hist_result' = IF outcome = "raise" THEN "raised" ELSE "none"
  /\ hist_failure' = "none"
  /\ hist_pre' = [hourly |-> hourly, raw |-> raw, clock |-> now]
  /\ kept' = raw
  /\ UNCHANGED <<raw, historical_data, records_inserted, hist_pending, cleared,
                 backfills>>
  /\ HistFrame

\* the first try: cursor.execute(delete_sql); conn.commit().  An exception
\* is logged and rolled back, and the call goes on; when conn.cursor() is
\* what raised, cursor.close() in the finally raises in its turn.
HistDelete ==
  /\ hist_pc = "delete"
  /\ \E outcome \in {"deleted", "failed", "no_cursor"} :
       /\ raw' = IF outcome = "deleted" THEN DeleteSql(raw, now, hist_days) ELSE raw
       /\ hist_pc' = IF outcome = "no_cursor" THEN "done" ELSE "fetch"
       /\ hist_result' = IF outcome = "no_cursor" THEN "raised" ELSE "none"
       /\ cleared' = (outcome = "deleted")
  /\ UNCHANGED hist_failure
  /\ kept' = kept \cap raw'
  /\ UNCHANGED <<pool, npools, hist_days, historical_data, records_inserted,
                 hist_pending, hist_pre, backfills>>
  /\ HistFrame

\* records_inserted = 0; requests.get, the datapoints, conn =
\* get_db_connection().  An exception of any of them is logged by the outer
\* except, and the call returns records_inserted.
HistFetch ==
  /\ hist_pc = "fetch"
  /\ \E fetched \in BOOLEAN, outcome \in Outcomes :
       /\ pool' = IF fetched THEN PoolAfter(pool, npools, outcome) ELSE pool
       /\ npools' = IF pool' # pool THEN npools + 1 ELSE npools
       /\ IF fetched /\ outcome = "conn"
            THEN /\ historical_data' \in ApiData
                 /\ hist_pc' = "insert"
                 /\ UNCHANGED <<hist_result, hist_failure>>
            ELSE /\ hist_pc' = "done"
                 /\ hist_result' = "returned"
                 /\ hist_failure' = IF fetched THEN "insert" ELSE "api"
                 /\ UNCHANGED historical_data
  /\ records_inserted' = 0
  /\ UNCHANGED <<raw, hist_days, hist_pending, hist_pre, kept, cleared, backfills>>
  /\ HistFrame

\* one turn of "for datapoint in historical_data": cursor.execute(insert_sql)
\* and records_inserted += 1.  A stored row of the same timestamp makes the
\* statement raise (UNIQUE): rollback, logged, return records_inserted.
HistInsertRow ==
  /\ hist_pc = "insert"
  /\ records_inserted < Len(historical_data)
  /\ LET datapoint == historical_data[records_inserted + 1]
     IN IF datapoint.timestamp \in Timestamps(raw \cup hist_pending)
          THEN /\ raw' = HistRollback(raw, hist_pending)
               /\ hist_pending' = {}
               /\ hist_pc' = "done"
               /\ hist_result' = "returned"
               /\ hist_failure' = "insert"
               /\ UNCHANGED records_inserted
          ELSE /\ hist_pending' = hist_pending \cup {datapoint}
               /\ records_inserted' = records_inserted + 1
               /\ UNCHANGED raw
               /\ UNCHANGED <<hist_pc, hist_result, hist_failure>>
  /\ UNCHANGED <<pool, npools, hist_days, historical_data, hist_pre, kept,
                 cleared, backfills>>
  /\ HistFrame

\* conn.commit() after the loop
HistCommit ==
  /\ hist_pc = "insert"
  /\ records_inserted = Len(historical_data)
  /\ raw' = raw \cup hist_pending
  /\ hist_pending' = {}
  /\ hist_pc' = "done"
  /\ hist_result' = "returned"
  /\ UNCHANGED <<hist_failure, pool, npools, hist_days, historical_data, records_inserted,
                 hist_pre, kept, cleared, backfills>>
  /\ HistFrame

\* except Exception: conn.rollback(), for an insert or the commit that the
\* database fails; the exception is logged and the call returns
\* records_inserted as it stands
HistInsertRaise ==
  /\ hist_pc = "insert"
  /\ raw' = HistRollback(raw, hist_pending)
  /\ hist_pending' = {}
  /\ hist_pc' = "done"
  /\ hist_result' = "returned"
  /\ hist_failure' = "insert"
  /\ UNCHANGED <<pool, npools, hist_days, historical_data, records_inserted,
                 hist_pre, kept, cleared, backfills>>
  /\ HistFrame

\* the call has returned records_inserted, or raised; the caller goes on
HistReturn ==
  /\ hist_pc = "done"
  /\ hist_pc' = "idle"
  /\ hist_days' = 0
  /\ historical_data' = <<>>
  /\ records_inserted' = 0
  /\ hist_result' = "none"
  /\ hist_failure' = "none"
  /\ hist_pre' = NoPre
  /\ kept' = {}
  /\ cleared' = FALSE
  /\ backfills' = backfills + 1
  /\ UNCHANGED <<raw, pool, npools, hist_pending>>
  /\ HistFrame

\* ------------------------------------------------------------------ fetch_bitcoin_data_from_coingecko
\* what requests.get, raise_for_status and the parsing of the answer raise
Exceptions == {"HTTPError", "KeyError"}
\* raise None: exceptions must derive from BaseException
TypeError == [kind |-> "TypeError", attempt |-> 0]

\* while attempts < retry_count
WhileTest(a, count) == a < count
\* if attempts < retry_count: time.sleep(retry_delay)
\* (variant: the wait is made after every failed attempt)
SleepAlways(a, count) == TRUE
SleepTest(a, count) == a < count

\* attempts = 0; last_exception = NoException
FetchCall ==
  /\ fetch_pc = "idle"
  /\ \E count \in 0..MaxRetries : retry_count' = count
  /\ \E delay \in 0..MaxDelay : retry_delay' = delay
  /\ attempts' = 0
  /\ last_exception' = NoException
  /\ log' = <<>>
  /\ fetch_pc' = "while"
  /\ UNCHANGED <<fetch_result, raised>>
  /\ UNCHANGED <<dbVars, indVars, histVars, poolVars>>

\* the try of one turn succeeds: return bitcoin_data
FetchAttemptReturns ==
  /\ fetch_pc = "while"
  /\ WhileTest(attempts, retry_count)
  /\ log' = Append(log, [event |-> "get", exception |-> NoException, seconds |-> 0])
  /\ fetch_result' = "returned"
  /\ fetch_pc' = "done"
  /\ UNCHANGED <<retry_count, retry_delay, attempts, last_exception, raised>>
  /\ UNCHANGED <<dbVars, indVars, histVars, poolVars>>

\* the try of one turn raises: attempts += 1; last_exception = e
FetchAttemptRaises ==
  /\ fetch_pc = "while"
  /\ WhileTest(attempts, retry_count)
  /\ \E e \in Exceptions :
       /\ last_exception' = [kind |-> e, attempt |-> attempts + 1]
       /\ log' = Append(log, [event |-> "get", exception |-> last_exception',
                              seconds |-> 0])
  /\ attempts' = attempts + 1
  /\ fetch_pc' = IF SleepTest(attempts', retry_count) THEN "sleep" ELSE "while"
  /\ UNCHANGED <<retry_count, retry_delay, fetch_result, raised>>
  /\ UNCHANGED <<dbVars, indVars, histVars, poolVars>>

\* time.sleep(retry_delay)
FetchSleep ==
  /\ fetch_pc = "sleep"
  /\ log' = Append(log, [event |-> "sleep", exception |-> NoException,
                         seconds |-> retry_delay])
  /\ fetch_pc' = "while"
  /\ UNCHANGED <<retry_count, retry_delay, attempts, last_exception, fetch_result,
                 raised>>
  /\ UNCHANGED <<dbVars, indVars, histVars, poolVars>>

\* the loop has ended: raise last_exception
FetchRaise ==
  /\ fetch_pc = "while"
  /\ ~WhileTest(attempts, retry_count)
  /\ raised' = IF last_exception = NoException THEN TypeError ELSE last_exception
  /\ fetch_result' = "raised"
  /\ fetch_pc' = "done"
  /\ UNCHANGED <<retry_count, retry_delay, attempts, last_exception, log>>
  /\ UNCHANGED <<dbVars, indVars, histVars, poolVars>>

\* the call has returned or raised; the caller goes on
FetchReturn ==
  /\ fetch_pc = "done"
  /\ fetch_pc' = "idle"
  /\ retry_count' = 0
  /\ retry_delay' = 0
  /\ attempts' = 0
  /\ last_exception' = NoException
  /\ fetch_result' = "none"
  /\ raised' = NoException
  /\ log' = <<>>
  /\ UNCHANGED <<dbVars, indVars, histVars, poolVars>>

\* ------------------------------------------------------------------ get_db_connection_pool
\* what no step of get_db_connection_pool changes
PoolFrame ==
  UNCHANGED <<now, raw, hourly, pc, op, days, use_hourly, data, bsize, conn,
              connState, released, hours, pos, batch_data, txn, ptick, result, ret,
              pre, wrote, replaced, lastWriter, last, track, indVars, histVars,
              fetchVars>>

\* get_db_connection_pool(min_connections, max_connections), called by thread t
PoolCall(t) ==
  /\ pool_pc[t] = "idle"
  /\ \E m \in 1..MaxConnections : max_connections' = [max_connections EXCEPT ![t] = m]
  /\ pool_pc' = [pool_pc EXCEPT ![t] = "test"]
  /\ UNCHANGED <<pool, npools, new_pool, pool_obj, pool_result, made>>
  /\ PoolFrame

\* if _connection_pool is None
PoolTest(t) ==
  /\ pool_pc[t] = "test"
  /\ pool_pc' = [pool_pc EXCEPT ![t] = IF pool = None THEN "create" ELSE "return"]
  /\ UNCHANGED <<pool, npools, max_connections, new_pool, pool_obj, pool_result, made>>
  /\ PoolFrame

\* pool.ThreadedConnectionPool(min_connections, max_connections, ...): it
\* connects to the database, and gives a new pool
PoolCreate(t) ==
  /\ pool_pc[t] = "create"
  /\ npools' = npools + 1
  /\ made' = Append(made, max_connections[t])
  /\ new_pool' = [new_pool EXCEPT ![t] = npools + 1]
  /\ pool_pc' = [pool_pc EXCEPT ![t] = "store"]
  /\ UNCHANGED <<pool, max_connections, pool_obj, pool_result>>
  /\ PoolFrame

\* the constructor raises: except Exception: raise
PoolCreateRaises(t) ==
  /\ pool_pc[t] = "create"
  /\ pool_result' = [pool_result EXCEPT ![t] = "raised"]
  /\ pool_pc' = [pool_pc EXCEPT ![t] = "done"]
  /\ UNCHANGED <<pool, npools, max_connections, new_pool, pool_obj, made>>
  /\ PoolFrame

\* _connection_pool = <the new pool>
PoolStore(t) ==
  /\ pool_pc[t] = "store"
  /\ pool' = new_pool[t]
  /\ new_pool' = [new_pool EXCEPT ![t] = None]
  /\ pool_pc' = [pool_pc EXCEPT ![t] = "return"]
  /\ UNCHANGED <<npools, max_connections, pool_obj, pool_result, made>>
  /\ PoolFrame

\* return _connection_pool
PoolReturn(t) ==
  /\ pool_pc[t] = "return"
  /\ pool_obj' = [pool_obj EXCEPT ![t] = pool]
  /\ pool_result' = [pool_result EXCEPT ![t] = "returned"]
  /\ pool_pc' = [pool_pc EXCEPT ![t] = "done"]
  /\ UNCHANGED <<pool, npools, max_connections, new_pool, made>>
  /\ PoolFrame

\* the call has returned or raised; the thread goes on
PoolDone(t) ==
  /\ pool_pc[t] = "done"
  /\ pool_pc' = [pool_pc EXCEPT ![t] = "idle"]
  /\ max_connections' = [max_connections EXCEPT ![t] = 0]
  /\ pool_obj' = [pool_obj EXCEPT ![t] = None]
  /\ pool_result' = [pool_result EXCEPT ![t] = "none"]
  /\ UNCHANGED <<pool, npools, new_pool, made>>
  /\ PoolFrame

\* ------------------------------------------------------------------ clock
Advance ==
  /\ now < Now0 + MaxAdvance
  /\ now' = now + 1
  /\ UNCHANGED <<raw, hourly, pool, npools, pc, op, days, use_hourly, data, bsize,
                 conn, connState, released, hours, pos, batch_data, txn, ptick,
                 result, ret, pre, wrote, replaced, lastWriter, last, track, otherVars>>

\* ------------------------------------------------------------------ specifications
Aggregate(p) ==
  \/ CallAggregate(p)
  \/ AggHours(p) \/ AggHour(p) \/ AggLoopEnd(p) \/ AggInsertRow(p)
  \/ AggCommit(p) \/ AggRaise(p)

Insert(p) == CallInsert(p) \/ InsExec(p) \/ InsCommit(p) \/ InsRaise(p)

History(p) == CallHistory(p) \/ HistRead(p) \/ HistRaise(p)

\* one caller that inserts ticks and aggregates, one call at a time, while
\* the clock goes on
Next ==
  \/ \E p \in SeqProcs : Aggregate(p) \/ Insert(p) \/ FinallyRelease(p) \/ Return(p)
  \/ Advance
Spec == Init /\ [][Next]_vars

\* one caller of the three functions with_db_connection wraps
NextWrapped ==
  \E p \in SeqProcs :
    Aggregate(p) \/ Insert(p) \/ History(p) \/ FinallyRelease(p) \/ Return(p)
SpecWrapped == InitWrapped /\ [][NextWrapped]_vars

\* one caller that aggregates, over every stored series of the bounds
NextAgg ==
  \E p \in SeqProcs :
    Aggregate(p) \/ CallAggregateSmallBatch(p) \/ FinallyRelease(p) \/ Return(p)
SpecAgg == InitAgg /\ [][NextAgg]_vars

\* two callers, their steps interleaved
NextConc == \E p \in Procs : Aggregate(p) \/ FinallyRelease(p) \/ Insert(p) \/ Return(p)
SpecConc == InitConc /\ [][NextConc]_vars

Backfill ==
  \/ HistCall \/ HistDelete \/ HistFetch \/ HistInsertRow \/ HistCommit
  \/ HistInsertRaise \/ HistReturn

\* one caller that aggregates and refreshes the raw history, one call at a
\* time
NextBackfill ==
  \/ \E p \in SeqProcs : Aggregate(p) \/ FinallyRelease(p) \/ Return(p)
  \/ Backfill
SpecBackfill == Init /\ [][NextBackfill]_vars

\* no tick is stored, and no call has been made
InitFetch == raw = {} /\ track = "calls" /\ Idle /\ OthersIdle

FetchStep ==
  \/ FetchAttemptReturns \/ FetchAttemptRaises \/ FetchSleep \/ FetchRaise
  \/ FetchReturn
NextFetch == FetchCall \/ FetchStep

\* calls of fetch_bitcoin_data_from_coingecko, one at a time: a call that
\* was made goes on, each request ends and each wait ends
SpecFetch == InitFetch /\ [][NextFetch]_vars /\ WF_vars(FetchStep)

GetPool(t) ==
  \/ PoolCall(t) \/ PoolTest(t) \/ PoolCreate(t) \/ PoolCreateRaises(t)
  \/ PoolStore(t) \/ PoolReturn(t) \/ PoolDone(t)

\* two threads that call get_db_connection_pool, their steps interleaved
NextPool == \E t \in Procs : GetPool(t)
SpecPool == InitFetch /\ [][NextPool]_vars

\* ------------------------------------------------------------------ numbers
\* A float of the data analysis functions: a rational n/d in lowest terms
\* with d > 0, NaN, or +inf.  (-inf does not arise: the only division by
\* zero is avg_gain / avg_loss, and gains are never negative.)
RECURSIVE GCD(_, _)
GCD(a, b) == IF b = 0 THEN a ELSE GCD(b, a % b)
Abs(i) == IF i < 0 THEN -i ELSE i
Num(n, d) ==
  LET g == GCD(Abs(n), d)
  IN [k |-> "num", n |-> n \div g, d |-> d \div g]
NaN == [k |-> "nan", n |-> 0, d |-> 1]
Inf == [k |-> "inf", n |-> 1, d |-> 1]
FromInt(i) == Num(i, 1)
IsNum(x) == x.k = "num"

FAdd(x, y) ==
  IF x.k = "nan" \/ y.k = "nan" THEN NaN
  ELSE IF x.k = "inf" \/ y.k = "inf" THEN Inf
  ELSE Num(x.n * y.d + y.n * x.d, x.d * y.d)
FNeg(x) == IF x.k = "num" THEN Num(-x.n, x.d) ELSE NaN
FSub(x, y) ==
  IF x.k = "inf" /\ y.k = "num" THEN Inf ELSE FAdd(x, FNeg(y))
FMul(x, y) ==
  IF x.k = "nan" \/ y.k = "nan" THEN NaN
  ELSE IF x.k = "inf" \/ y.k = "inf"
    THEN (IF (x.k = "num" /\ x.n <= 0) \/ (y.k = "num" /\ y.n <= 0) THEN NaN ELSE Inf)
  ELSE Num(x.n * y.n, x.d * y.d)
\* x / y as numpy divides floats: x / 0 is inf for x > 0 and NaN for x = 0
FDiv(x, y) ==
  IF x.k = "nan" \/ y.k = "nan" THEN NaN
  ELSE IF y.k = "inf" THEN (IF x.k = "inf" THEN NaN ELSE Num(0, 1))
  ELSE IF x.k = "inf" THEN (IF y.n >= 0 THEN Inf ELSE NaN)
  ELSE IF y.n = 0 THEN (IF x.n > 0 THEN Inf ELSE NaN)
  ELSE IF y.n > 0 THEN Num(x.n * y.d, x.d * y.n)
  ELSE Num(-(x.n * y.d), x.d * (-y.n))
FGreater(x, y) == x.k = "num" /\ y.k = "num" /\ x.n * y.d > y.n * x.d
FLess(x, y) == x.k = "num" /\ y.k = "num" /\ x.n * y.d < y.n * x.d

\* ------------------------------------------------------------------ DataFrames
\* A DataFrame is the sequence of its rows, a row a function of the column
\* names.  The frames given to the functions have the columns timestamp and
\* price_usd, distinct timestamps, and their rows in any order.
SeriesRow(ts, price) == [timestamp |-> ts, price_usd |-> price]
Frames ==
  UNION {{f \in [1..n -> [timestamp : 1..MaxLen, price_usd : 1..MaxSeriesPrice]] :
            \A i \in 1..n, j \in 1..n : i # j => f[i].timestamp # f[j].timestamp} :
         n \in 0..MaxLen}

Column(frame, name) == [i \in 1..Len(frame) |-> frame[i][name]]
\* df[name] = values
SetColumn(frame, name, values) ==
  [i \in 1..Len(frame) |->
     [c \in DOMAIN frame[i] \cup {name} |-> IF c = name THEN values[i] ELSE frame[i][c]]]
\* df.drop(names, axis=1, inplace=True)
DropColumns(frame, names) ==
  [i \in 1..Len(frame) |-> [c \in DOMAIN frame[i] \ names |-> frame[i][c]]]
Floats(ints) == [i \in 1..Len(ints) |-> FromInt(ints[i])]

RECURSIVE SortValues(_)
\* df.sort_values("timestamp"): a new frame, ascending
\* (variant: the frame in the order given)
Unsorted(frame) == frame
SortValues(frame) ==
  IF frame = <<>> THEN <<>>
  ELSE LET i == CHOOSE i \in 1..Len(frame) :
                  \A j \in 1..Len(frame) : frame[i].timestamp <= frame[j].timestamp
       IN <<frame[i]>> \o SortValues([j \in 1..(Len(frame) - 1) |->
                                         IF j < i THEN frame[j] ELSE frame[j + 1]])

RECURSIVE FSum(_, _, _)
\* the sum of xs[lo..hi]
FSum(xs, lo, hi) == IF lo > hi THEN FromInt(0) ELSE FAdd(xs[lo], FSum(xs, lo + 1, hi))

\* series.rolling(window=w).mean(): min_periods is the window, so the
\* first w - 1 values are NaN
\* (variant: min_periods = 1, the mean of the values there are)
RollingMeanPartial(xs, w) ==
  [i \in 1..Len(xs) |->
     LET lo == IF i - w + 1 < 1 THEN 1 ELSE i - w + 1
     IN FDiv(FSum(xs, lo, i), FromInt(i - lo + 1))]
RollingMean(xs, w) ==
  [i \in 1..Len(xs) |->
     IF i < w THEN NaN ELSE FDiv(FSum(xs, i - w + 1, i), FromInt(w))]

\* f"ma_{window}h"
MaName(w) == "ma_" \o ToString(w) \o "h"

\* the caller's frame after a call: sort_values(...).copy() gives the
\* function a frame of its own, and the columns are set on that one
\* (variant: the columns are set on the caller's frame)
CallerAliased(input, work) == work
CallerFrame(input, work) == input

\* calculate_moving_average(df, window)
MovingAverageOf(frame, w) ==
  LET sorted == SortValues(frame)
  IN SetColumn(sorted, MaName(w), RollingMean(Floats(Column(sorted, "price_usd")), w))

\* series.diff(): the first value is NaN
Diff(xs) == [i \in 1..Len(xs) |-> IF i = 1 THEN NaN ELSE FSub(xs[i], xs[i - 1])]
\* np.where(change > 0, change, 0): a NaN change is not > 0
Gain(changes) ==
  [i \in 1..Len(changes) |->
     IF FGreater(changes[i], FromInt(0)) THEN changes[i] ELSE FromInt(0)]
\* np.where(change < 0, abs(change), 0)
Loss(changes) ==
  [i \in 1..Len(changes) |->
     IF FLess(changes[i], FromInt(0)) THEN FNeg(changes[i]) ELSE FromInt(0)]
\* rs = avg_gain / avg_loss
\* (variant: a zero average loss taken as missing)
RelativeStrengthNoZero(avg_gain, avg_loss) ==
  IF avg_loss.k = "num" /\ avg_loss.n = 0 THEN NaN ELSE FDiv(avg_gain, avg_loss)
RelativeStrength(avg_gain, avg_loss) == FDiv(avg_gain, avg_loss)
\* 100 - (100 / (1 + rs))
RsiOf(rs) == FSub(FromInt(100), FDiv(FromInt(100), FAdd(FromInt(1), rs)))

\* the intermediate columns calculate_rsi drops
RsiDropped == {"price_change", "gain", "loss"}

\* calculate_rsi(df, window)
RsiFrameOf(frame, w) ==
  LET sorted == SortValues(frame)
      changes == Diff(Floats(Column(sorted, "price_usd")))
      withCols == SetColumn(SetColumn(SetColumn(sorted, "price_change", changes),
                                      "gain", Gain(changes)),
                            "loss", Loss(changes))
      avg_gain == RollingMean(Column(withCols, "gain"), w)
      avg_loss == RollingMean(Column(withCols, "loss"), w)
      rsi == [i \in 1..Len(sorted) |-> RsiOf(RelativeStrength(avg_gain[i], avg_loss[i]))]
  IN DropColumns(SetColumn(withCols, "rsi", rsi), RsiDropped)

RECURSIVE SquaredDeviations(_, _, _, _)
\* the sum of (xs[j] - mean)^2 over lo..hi
SquaredDeviations(xs, mean, lo, hi) ==
  IF lo > hi THEN FromInt(0)
  ELSE FAdd(FMul(FSub(xs[lo], mean), FSub(xs[lo], mean)),
            SquaredDeviations(xs, mean, lo + 1, hi))

\* series.rolling(window=w).var(): ddof = 1, the sum of squared deviations
\* over w - 1; NaN for the first w - 1 values and for w = 1 (0 / 0)
\* (variant: ddof = 0, the population variance)
RollingVarPopulation(xs, w) ==
  [i \in 1..Len(xs) |->
     IF i < w THEN NaN
     ELSE FDiv(SquaredDeviations(xs, RollingMean(xs, w)[i], i - w + 1, i), FromInt(w))]
RollingVar(xs, w) ==
  [i \in 1..Len(xs) |->
     IF i < w THEN NaN
     ELSE FDiv(SquaredDeviations(xs, RollingMean(xs, w)[i], i - w + 1, i),
               FromInt(w - 1))]

\* base + coef * sqrt(rad), kept as its three parts: the square root of a
\* rational is not one.  rolling(...).std() is sqrt(rolling var).
Surd(base, coef, rad) ==
  IF base.k = "num" /\ rad.k = "num"
    THEN [k |-> "surd", base |-> base, coef |-> coef, rad |-> rad]
    ELSE NaN

\* calculate_bollinger_bands(df, window, num_std)
BollingerOf(frame, w, num_std) ==
  LET sorted == SortValues(frame)
      prices == Floats(Column(sorted, "price_usd"))
      withMiddle == SetColumn(sorted, "bb_middle", RollingMean(prices, w))
      variance == RollingVar(prices, w)
      middle == Column(withMiddle, "bb_middle")
      upper == [i \in 1..Len(sorted) |-> Surd(middle[i], num_std, variance[i])]
      lower == [i \in 1..Len(sorted) |-> Surd(middle[i], -num_std, variance[i])]
  IN SetColumn(SetColumn(withMiddle, "bb_upper", upper), "bb_lower", lower)

\* the smoothing factor of ewm(span=span): alpha = 2 / (span + 1)
\* (variant: alpha = 1 / span)
AlphaOfPeriod(span) == FDiv(FromInt(1), FromInt(span))
Alpha(span) == FDiv(FromInt(2), FromInt(span + 1))

RECURSIVE EwmAt(_, _, _)
\* series.ewm(span=span, adjust=False).mean() at index i: seeded by the
\* first value, then (1 - alpha) * previous + alpha * value
EwmAt(xs, span, i) ==
  IF i = 1 THEN xs[1]
  ELSE FAdd(FMul(FSub(FromInt(1), Alpha(span)), EwmAt(xs, span, i - 1)),
            FMul(Alpha(span), xs[i]))
EwmMean(xs, span) == [i \in 1..Len(xs) |-> EwmAt(xs, span, i)]

\* the intermediate columns calculate_macd drops before it returns
MacdDropped == {"ema_fast", "ema_slow"}

\* calculate_macd(df, fast_period, slow_period, signal_period)
MacdOf(frame, fast_period, slow_period, signal_period) ==
  LET sorted == SortValues(frame)
      prices == Floats(Column(sorted, "price_usd"))
      withEmas == SetColumn(SetColumn(sorted, "ema_fast", EwmMean(prices, fast_period)),
                            "ema_slow", EwmMean(prices, slow_period))
      macd == [i \in 1..Len(sorted) |->
                 FSub(withEmas[i]["ema_fast"], withEmas[i]["ema_slow"])]
      withMacd == SetColumn(withEmas, "macd", macd)
      withSignal == SetColumn(withMacd, "macd_signal",
                              EwmMean(Column(withMacd, "macd"), signal_period))
      hist == [i \in 1..Len(sorted) |->
                 FSub(withSignal[i]["macd"], withSignal[i]["macd_signal"])]
  IN DropColumns(SetColumn(withSignal, "macd_hist", hist), MacdDropped)

\* a DataFrame of the bounds, no data analysis function called yet
InitInd ==
  /\ raw = {} /\ track = "calls" /\ Idle /\ HistIdle /\ FetchIdle /\ PoolIdle
  /\ df \in Frames
  /\ df_before = <<>>
  /\ fn = "none"
  /\ args = NoArgs
  /\ out = <<>>

\* a call of a data analysis function on the caller's frame
Calculate(name, a, returned) ==
  /\ fn' = name
  /\ args' = a
  /\ out' = returned
  /\ df_before' = df
  /\ df' = CallerFrame(df, returned)
  /\ UNCHANGED <<dbVars, histVars, fetchVars, poolVars>>

CalculateMovingAverage ==
  /\ fn = "none"
  /\ \E w \in 1..MaxWindow :
       Calculate("calculate_moving_average", [NoArgs EXCEPT !.window = w],
                 MovingAverageOf(df, w))

CalculateRsi ==
  /\ fn = "none"
  /\ \E w \in 1..MaxWindow :
       Calculate("calculate_rsi", [NoArgs EXCEPT !.window = w], RsiFrameOf(df, w))

CalculateBollingerBands ==
  /\ fn = "none"
  /\ \E w \in 1..MaxWindow, num_std \in 0..MaxStd :
       Calculate("calculate_bollinger_bands",
                 [NoArgs EXCEPT !.window = w, !.num_std = num_std],
                 BollingerOf(df, w, num_std))

CalculateMacd ==
  /\ fn = "none"
  /\ \E fast \in 1..MaxSpan, slow \in 1..MaxSpan, signal \in 1..MaxSpan :
       Calculate("calculate_macd",
                 [NoArgs EXCEPT !.fast = fast, !.slow = slow, !.signal = signal],
                 MacdOf(df, fast, slow, signal))

NextInd ==
  \/ CalculateMovingAverage
  \/ CalculateRsi
  \/ CalculateBollingerBands
  \/ CalculateMacd

\* one call of one data analysis function on one DataFrame
SpecInd == InitInd /\ [][NextInd]_vars

\* ------------------------------------------------------------------ claims
\* the vocabulary of the claims, stated apart from the definitions above
HourStart(ts) == ts - (ts % SlotsPerHour)
WithinLookback(ts, clock, d) == clock - ts < d * SlotsPerDay
TicksOfHour(ticks, h) ==
  {t \in ticks : h <= t.timestamp /\ t.timestamp < h + SlotsPerHour}
BucketsOf(table, h) == {r \in table : r.timestamp = h}

RECURSIVE VolumeTotal(_)
VolumeTotal(ticks) ==
  IF ticks = {} THEN 0
  ELSE LET t == CHOOSE x \in ticks : TRUE
       IN t.volume_usd + VolumeTotal(ticks \ {t})

\* open, high, low and close of row r are those of the ticks T of its hour
OhlcOf(r, T) ==
  /\ \E t \in T : /\ \A u \in T : t.timestamp <= u.timestamp
                  /\ r.open_price_usd = t.price_usd
  /\ \E t \in T : /\ \A u \in T : u.timestamp <= t.timestamp
                  /\ r.close_price_usd = t.price_usd
  /\ \E t \in T : /\ \A u \in T : u.price_usd <= t.price_usd
                  /\ r.high_price_usd = t.price_usd
  /\ \E t \in T : /\ \A u \in T : t.price_usd <= u.price_usd
                  /\ r.low_price_usd = t.price_usd

\* the volume of row r is exactly the mean of the volumes of T
ExactMeanOf(r, T) == r.volume_usd * Cardinality(T) = VolumeTotal(T)

\* the volume of row r is the mean of the volumes of T, rounded half up to
\* the unit of the column
RoundedMeanOf(r, T) ==
  LET n == Cardinality(T)
      total == VolumeTotal(T)
  IN /\ 2 * n * r.volume_usd <= 2 * total + n
     /\ 2 * total + n < 2 * n * r.volume_usd + 2 * n

AggDone(p) == pc[p] = "done" /\ op[p] = "aggregate"
AggOk(p) == AggDone(p) /\ result[p] = "ok"
AggRaised(p) == AggDone(p) /\ result[p] = "raised"

\* the hours with a tick inside the lookback window of the call and no
\* bucket before the call
DueHours(p) ==
  {HourStart(t.timestamp) :
     t \in {t \in pre[p].raw : WithinLookback(t.timestamp, pre[p].clock, days[p])}}
  \ {r.timestamp : r \in pre[p].hourly}

\* C1: after a successful aggregate_hourly_data(days), every hour that has a
\* tick inside the lookback window and had no bucket before the call has
\* exactly one bucket, and every bucket the call created is for an hour that
\* has a tick.
C1_NewHoursBucketed ==
  \A p \in SeqProcs :
    AggOk(p) =>
      /\ \A h \in DueHours(p) : Cardinality(BucketsOf(hourly, h)) = 1
      /\ \A r \in hourly \ pre[p].hourly : TicksOfHour(raw, r.timestamp) # {}

\* a successful call that found buckets of earlier calls and added new ones
C1_Witness ==
  \E p \in SeqProcs :
    /\ AggOk(p)
    /\ pre[p].hourly # {}
    /\ DueHours(p) # {}
    /\ hourly # pre[p].hourly

\* C2 (as amended): every bucket written by aggregate_hourly_data has the
\* open of the first tick of its hour, the close of the last, the maximum
\* price as high, the minimum as low, and as volume the arithmetic mean of the
\* tick volumes rounded to the two decimals of the volume_usd column.
C2_BucketIsOhlcAndRoundedMean ==
  \A p \in SeqProcs :
    AggOk(p) =>
      \A r \in wrote[p] :
        LET T == TicksOfHour(raw, r.timestamp)
        IN r \in hourly /\ T # {} /\ OhlcOf(r, T) /\ RoundedMeanOf(r, T)

\* C2 (as claimed): the volume of every bucket written is exactly the mean
C2_BucketIsOhlcAndExactMean ==
  \A p \in SeqProcs :
    AggOk(p) =>
      \A r \in wrote[p] :
        LET T == TicksOfHour(raw, r.timestamp)
        IN r \in hourly /\ T # {} /\ OhlcOf(r, T) /\ ExactMeanOf(r, T)

\* a bucket of three ticks whose high is neither its open nor its close and
\* whose mean volume is not a whole number of cents
C2_Witness ==
  \E p \in SeqProcs :
    /\ AggOk(p)
    /\ \E r \in wrote[p] :
         LET T == TicksOfHour(raw, r.timestamp)
         IN /\ Cardinality(T) = 3
            /\ r.high_price_usd > r.open_price_usd
            /\ r.high_price_usd > r.close_price_usd
            /\ ~ExactMeanOf(r, T)

OneRowPerHour(table) ==
  \A r1 \in table, r2 \in table : r1.timestamp = r2.timestamp => r1 = r2

\* the caller's previous call was an aggregation with result res
\* (last[p].partway: it failed after it had written rows)
PreviousAgg(p, res) == last[p].op = "aggregate" /\ last[p].result = res

\* C3: when aggregate_hourly_data has run twice in a row with the same
\* days_to_aggregate and no tick was added or removed in between, the bucket
\* table after the second run is the table after the first run, with no hour
\* twice.
C3_SecondRunChangesNothing ==
  \A p \in SeqProcs :
    (AggOk(p) /\ PreviousAgg(p, "ok") /\ last[p].days = days[p]) =>
      hourly = last[p].after /\ OneRowPerHour(hourly)

\* the second of two successful runs, the first having produced buckets
C3_Witness ==
  \E p \in SeqProcs :
    /\ AggOk(p) /\ PreviousAgg(p, "ok") /\ last[p].days = days[p]
    /\ last[p].after # {}
    /\ \E t \in raw : WithinLookback(t.timestamp, pre[p].clock, days[p])

\* a caller's aggregation has ended (the wrapper may still hold it)
Finished(p) == op[p] = "aggregate" /\ pc[p] \in {"release", "done"}
FinishedOk(p) == Finished(p) /\ result[p] = "ok"

\* C4: in every state the bucket table has at most one bucket per hour, and
\* when an aggregation has written a bucket for an hour that had one, the
\* table holds the newly written values for that hour (the old row is
\* replaced, no second row is added).
C4_OneBucketPerHourUpsertReplaces ==
  /\ OneRowPerHour(hourly)
  /\ \A p \in Procs : (FinishedOk(p) /\ lastWriter = p) => wrote[p] \subseteq hourly

\* a caller has overwritten a bucket with different values
C4_Witness ==
  \E p \in Procs :
    /\ FinishedOk(p) /\ lastWriter = p
    /\ \E old \in replaced[p] : old \notin hourly /\ BucketsOf(wrote[p], old.timestamp) # {}

\* C5 (as amended): when aggregate_hourly_data fails, the remaining batches
\* are not processed, the failure is raised, and every bucket the invocation
\* wrote, in earlier batches too, is rolled back: the bucket table is as it
\* was before the call.
C5_FailureRollsBackAllBatches ==
  \A p \in SeqProcs :
    AggRaised(p) =>
      /\ hourly = pre[p].hourly
      /\ txn[p] = <<>> /\ batch_data[p] = <<>>

\* C5 (as claimed): when the invocation fails, the buckets written by its
\* earlier batches (here batches of one row) are in the table when it ends.
C5_EarlierBatchesRemain ==
  \A p \in SeqProcs :
    (AggRaised(p) /\ bsize[p] = 1) => wrote[p] \subseteq hourly

\* a failure after a batch had been written
C5_Witness ==
  \E p \in SeqProcs :
    AggRaised(p) /\ bsize[p] = 1 /\ wrote[p] # {} /\ hourly = pre[p].hourly

\* the hours of ticks with a tick inside the lookback window
HoursInWindow(ticks, clock, d) ==
  {HourStart(t.timestamp) : t \in {t \in ticks : WithinLookback(t.timestamp, clock, d)}}

CorrectBucket(r, ticks) ==
  LET T == TicksOfHour(ticks, r.timestamp)
  IN T # {} /\ OhlcOf(r, T) /\ RoundedMeanOf(r, T)

\* table is what one failure-free aggregation over ticks makes of before
SingleRunFrom(before, table, ticks, clock, d) ==
  LET due == HoursInWindow(ticks, clock, d) \ {r.timestamp : r \in before}
  IN /\ before \subseteq table
     /\ \A r \in table \ before : r.timestamp \in due /\ CorrectBucket(r, ticks)
     /\ \A h \in due : Cardinality(BucketsOf(table, h)) = 1

\* C6 (as amended): after an invocation that failed part-way, a following
\* failure-free invocation over the same ticks ends with exactly one bucket
\* for every hour of the window that has a tick, correct for every hour that
\* had no bucket before the failed invocation (a bucket that existed before
\* is kept as it was): the table a single failure-free invocation would have
\* produced.
C6_ResumedRunEqualsSingleRun ==
  \A p \in SeqProcs :
    (AggOk(p) /\ PreviousAgg(p, "raised") /\ last[p].partway) =>
      /\ SingleRunFrom(last[p].before, hourly, raw, pre[p].clock, days[p])
      /\ \A h \in HoursInWindow(raw, pre[p].clock, days[p]) :
           Cardinality(BucketsOf(hourly, h)) = 1

\* C6 (as claimed): after the failed and the following invocation every hour
\* of the window that has a tick has exactly one bucket, and it is correct.
C6_EveryHourHasCorrectBucket ==
  \A p \in SeqProcs :
    (AggOk(p) /\ PreviousAgg(p, "raised") /\ last[p].partway) =>
      \A h \in HoursInWindow(raw, pre[p].clock, days[p]) :
        /\ Cardinality(BucketsOf(hourly, h)) = 1
        /\ \A r \in BucketsOf(hourly, h) : CorrectBucket(r, raw)

\* the failed invocation had written rows, and the following one added
\* buckets to a table that had some
C6_Witness ==
  \E p \in SeqProcs :
    /\ AggOk(p) /\ PreviousAgg(p, "raised") /\ last[p].partway
    /\ last[p].before # {}
    /\ hourly # last[p].before

\* the table after writing every hour of the hours query as one batch
OneBatch(p) ==
  LET hs == HoursQuery(pre[p].raw, pre[p].hourly, pre[p].clock, days[p])
  IN ApplyRows(pre[p].hourly,
               [i \in 1..Len(hs) |-> Bucket(hs[i], HourDataQuery(pre[p].raw, hs[i]))])

\* C7: a failure-free aggregate_hourly_data ends with the table that writing
\* all its hours as one batch gives, for every batch size, the final partial
\* batch included.
C7_BatchingKeepsResult ==
  \A p \in SeqProcs : AggOk(p) => hourly = OneBatch(p)

\* three hours written with batch size two: a full batch and a partial one
C7_Witness ==
  \E p \in SeqProcs :
    AggOk(p) /\ bsize[p] = 2 /\ Cardinality(wrote[p]) = 3

\* C8: when the hours query of aggregate_hourly_data has run and the window
\* holds no hour with a tick and without a bucket, the call writes nothing:
\* the bucket table and the raw table are unchanged and the call returns
\* without error.
C8_NoNewHoursNoWrite ==
  \A p \in SeqProcs :
    (AggDone(p) /\ pre[p].clock # NoClock /\ DueHours(p) = {}) =>
      /\ result[p] = "ok"
      /\ wrote[p] = {}
      /\ hourly = pre[p].hourly
      /\ raw = pre[p].raw

\* a call whose window has ticks, every hour of them bucketed already
C8_Witness ==
  \E p \in SeqProcs :
    /\ AggDone(p) /\ pre[p].clock # NoClock /\ DueHours(p) = {}
    /\ HoursInWindow(pre[p].raw, pre[p].clock, days[p]) # {}
    /\ hourly # {}

\* C9: when a function wrapped by with_db_connection has ended, by return or
\* by raise, the connection it acquired has been released exactly once, and
\* nothing has been released when the acquisition failed.
C9_ReleasedExactlyOnce ==
  \A p \in SeqProcs :
    /\ released[p] <= 1
    /\ pc[p] = "done" =>
         IF conn[p] # None
           THEN released[p] = 1 /\ connState[p] \in {"returned", "closed"}
           ELSE released[p] = 0 /\ connState[p] = "none"

\* a wrapped function that raised with a connection acquired
C9_Witness ==
  \E p \in SeqProcs :
    /\ pc[p] = "done" /\ result[p] = "raised" /\ conn[p] # None
    /\ released[p] = 1

\* caller p waits for the row lock that caller q holds
WaitsFor(p, q) ==
  /\ pc[p] = "agg_insert" /\ batch_data[p] # <<>>
  /\ \E i \in 1..Len(txn[q]) : txn[q][i].timestamp = Head(batch_data[p]).timestamp

\* C10: two concurrent aggregate_hourly_data invocations never wait for each
\* other in a circle, and when both have committed a bucket for the same hour
\* the table has exactly one bucket for it, equal in every field to the one
\* the last committer computed.
C10_LastWriterWins ==
  \A p \in Procs, q \in Procs :
    p # q =>
      /\ ~(WaitsFor(p, q) /\ WaitsFor(q, p))
      /\ (FinishedOk(p) /\ FinishedOk(q) /\ lastWriter = p) =>
           \A r \in wrote[p] :
             BucketsOf(wrote[q], r.timestamp) # {} => BucketsOf(hourly, r.timestamp) = {r}

\* both committed the same hour with different values
C10_Witness ==
  \E p \in Procs, q \in Procs :
    /\ p # q /\ FinishedOk(p) /\ FinishedOk(q) /\ lastWriter = p
    /\ \E r \in wrote[p], o \in wrote[q] :
         /\ r.timestamp = o.timestamp
         /\ r.volume_usd # o.volume_usd
         /\ r.close_price_usd # o.close_price_usd

\* ------------------------------------------------------------------ claims, data analysis
Called(name) == fn = name
Defined(x) == x.k = "num"
MaxInt(a, b) == IF a > b THEN a ELSE b
RECURSIVE PriceTotal(_, _, _)
\* the sum of the prices of rows lo..hi of a frame
PriceTotal(frame, lo, hi) ==
  IF lo > hi THEN 0 ELSE frame[hi].price_usd + PriceTotal(frame, lo, hi - 1)
Ascending(frame) ==
  \A i \in 1..Len(frame), j \in 1..Len(frame) :
    i < j => frame[i].timestamp < frame[j].timestamp
\* the rows of a frame, reduced to the columns of the input
InputRows(frame) ==
  {[c \in {"timestamp", "price_usd"} |-> frame[i][c]] : i \in 1..Len(frame)}

\* C11: calculate_moving_average(df, w) returns the rows of df in timestamp
\* order with exactly max(0, n - w + 1) defined averages: the first w - 1 are
\* undefined and each later one is the arithmetic mean of the w prices that
\* end at its row; a series shorter than w gives only undefined values.
C11_MovingAverageIsWindowMean ==
  Called("calculate_moving_average") =>
    LET w == args.window
        n == Len(df_before)
        ma == Column(out, MaName(w))
    IN /\ Len(out) = n /\ Ascending(out) /\ InputRows(out) = InputRows(df_before)
       /\ Cardinality({i \in 1..n : Defined(ma[i])}) = MaxInt(0, n - w + 1)
       /\ \A i \in 1..n :
            IF i < w THEN ~Defined(ma[i])
            ELSE Defined(ma[i]) /\ ma[i].n * w = ma[i].d * PriceTotal(out, i - w + 1, i)

\* an unsorted series of three rows with window two: one undefined value and
\* a mean that is not a whole number
C11_Witness ==
  /\ Called("calculate_moving_average") /\ args.window = 2
  /\ Len(df_before) = 3 /\ ~Ascending(df_before)
  /\ \E i \in 1..Len(out) : Defined(out[i][MaName(2)]) /\ out[i][MaName(2)].d = 2

\* rows lo..hi of a frame hold a fall (a rise) of the price from one row to
\* the next, the step into row 1 being none
FallIn(frame, lo, hi) ==
  \E j \in lo..hi : j > 1 /\ frame[j].price_usd < frame[j - 1].price_usd
RiseIn(frame, lo, hi) ==
  \E j \in lo..hi : j > 1 /\ frame[j].price_usd > frame[j - 1].price_usd
StrictlyIncreasing(frame) ==
  \A j \in 2..Len(frame) : frame[j].price_usd > frame[j - 1].price_usd
InRange0To100(x) == x.n >= 0 /\ x.n <= 100 * x.d
IsHundred(x) == Defined(x) /\ x.n = 100 * x.d

\* every defined RSI is in [0, 100], and it is 100 where the window has a
\* rise and no fall
RsiBoundedAndSaturated ==
  LET w == args.window
      rsi == Column(out, "rsi")
  IN /\ \A i \in 1..Len(out) : Defined(rsi[i]) => InRange0To100(rsi[i])
     /\ \A i \in w..Len(out) :
          (RiseIn(out, i - w + 1, i) /\ ~FallIn(out, i - w + 1, i)) => IsHundred(rsi[i])

\* C12 (as amended): every defined output of calculate_rsi lies in [0, 100],
\* and the output is exactly 100 at every index whose window has average
\* loss 0 and average gain > 0; in particular a strictly increasing series of
\* length > w gives 100 at every index >= w - 1 except index 0 (the first
\* row has no price change, so with w = 1 its output is undefined).
C12_RsiBoundedSaturatesAfterFirstRow ==
  Called("calculate_rsi") =>
    /\ RsiBoundedAndSaturated
    /\ (StrictlyIncreasing(out) /\ Len(out) > args.window) =>
         \A i \in args.window..Len(out) : i > 1 => IsHundred(out[i]["rsi"])

\* C12 (as claimed): ... a strictly increasing series of length > w gives 100
\* at every index >= w - 1.
C12_RsiBoundedSaturatesFromWindow ==
  Called("calculate_rsi") =>
    /\ RsiBoundedAndSaturated
    /\ (StrictlyIncreasing(out) /\ Len(out) > args.window) =>
         \A i \in args.window..Len(out) : IsHundred(out[i]["rsi"])

\* a strictly increasing series of three rows, given unsorted, with window
\* two: undefined at the first row, 100 at the other two
C12_Witness ==
  /\ Called("calculate_rsi")
  /\ args.window = 2 /\ Len(out) = 3 /\ StrictlyIncreasing(out)
  /\ ~Defined(out[1]["rsi"])
  /\ IsHundred(out[2]["rsi"]) /\ IsHundred(out[3]["rsi"])
  /\ ~Ascending(df_before)

RECURSIVE ScaledSquares(_, _, _, _, _)
\* the sum over rows lo..hi of (w * price - total)^2: w^2 times the sum of
\* the squared deviations from the mean total / w
ScaledSquares(frame, w, total, hi, lo) ==
  IF lo > hi THEN 0
  ELSE (w * frame[hi].price_usd - total) * (w * frame[hi].price_usd - total)
       + ScaledSquares(frame, w, total, hi - 1, lo)
BandDefined(x) == x.k = "surd"
\* base + coef * sqrt(rad) >= base, and <= base
AtLeastBase(x) == x.coef >= 0 \/ x.rad.n = 0
AtMostBase(x) == x.coef <= 0 \/ x.rad.n = 0

\* C13: at every index where calculate_bollinger_bands(df, w, k), k >= 0,
\* defines the bands, bb_upper >= bb_middle >= bb_lower, and bb_upper -
\* bb_middle = bb_middle - bb_lower = k times the sample standard deviation
\* (the squared deviations of the window divided by w - 1).
C13_BandsAroundMiddleBySampleStd ==
  Called("calculate_bollinger_bands") =>
    LET w == args.window
    IN \A i \in 1..Len(out) :
         LET up == out[i]["bb_upper"]
             lo == out[i]["bb_lower"]
             mid == out[i]["bb_middle"]
         IN (BandDefined(up) /\ BandDefined(lo)) =>
              /\ i >= w /\ w > 1
              /\ up.base = mid /\ lo.base = mid
              /\ AtLeastBase(up) /\ AtMostBase(lo)
              /\ up.coef = args.num_std /\ lo.coef = -args.num_std
              /\ up.rad = lo.rad
              /\ up.rad.n * (w * w * (w - 1)) =
                   up.rad.d * ScaledSquares(out, w, PriceTotal(out, i - w + 1, i),
                                            i, i - w + 1)

\* bands two standard deviations from the middle, over a window of three
\* prices that are not all equal
C13_Witness ==
  /\ Called("calculate_bollinger_bands")
  /\ args.window = 3 /\ args.num_std = 2 /\ Len(out) = 3
  /\ BandDefined(out[3]["bb_upper"]) /\ out[3]["bb_upper"].rad.n > 0
  /\ ~BandDefined(out[2]["bb_upper"])

RECURSIVE SmoothedAt(_, _, _)
\* the exponential average e of xs with e[1] = xs[1] and
\* (span + 1) * e[i] = (span - 1) * e[i - 1] + 2 * xs[i]
SmoothedAt(xs, span, i) ==
  IF i = 1 THEN xs[1]
  ELSE FDiv(FAdd(FMul(FromInt(span - 1), SmoothedAt(xs, span, i - 1)),
                 FMul(FromInt(2), xs[i])),
            FromInt(span + 1))
PricesOf(frame) == [i \in 1..Len(frame) |-> FromInt(frame[i].price_usd)]

\* C14: calculate_macd defines macd, macd_signal and macd_hist at every index
\* of a non-empty series: the exponential averages are seeded by the first
\* value and use alpha = 2 / (span + 1), macd = ema_fast - ema_slow,
\* macd_signal is the exponential average of macd, and macd_hist = macd -
\* macd_signal exactly.
C14_MacdDefinedEverywhere ==
  Called("calculate_macd") =>
    LET prices == PricesOf(out)
        line == [i \in 1..Len(out) |-> out[i]["macd"]]
    IN /\ Len(out) = Len(df_before)
       /\ \A i \in 1..Len(out) :
            /\ Defined(out[i]["macd"])
            /\ Defined(out[i]["macd_signal"])
            /\ Defined(out[i]["macd_hist"])
            /\ out[i]["macd"] = FSub(SmoothedAt(prices, args.fast, i),
                                     SmoothedAt(prices, args.slow, i))
            /\ out[i]["macd_signal"] = SmoothedAt(line, args.signal, i)
            /\ out[i]["macd_hist"] = FSub(out[i]["macd"], out[i]["macd_signal"])

\* three prices, different fast and slow periods, a macd line and a
\* histogram that are not zero at the last index
C14_Witness ==
  /\ Called("calculate_macd")
  /\ Len(out) = 3 /\ args.fast = 1 /\ args.slow = 2 /\ args.signal = 2
  /\ Defined(out[1]["macd"]) /\ out[1]["macd"].n = 0
  /\ out[3]["macd"].n # 0 /\ out[3]["macd_hist"].n # 0

\* what a call of the named function with these arguments returns
AnalysisOf(name, a, frame) ==
  CASE name = "calculate_moving_average" -> MovingAverageOf(frame, a.window)
    [] name = "calculate_rsi" -> RsiFrameOf(frame, a.window)
    [] name = "calculate_bollinger_bands" -> BollingerOf(frame, a.window, a.num_std)
    [] name = "calculate_macd" -> MacdOf(frame, a.fast, a.slow, a.signal)
InputColumns == {"timestamp", "price_usd"}
ResultColumns(name, a) ==
  CASE name = "calculate_moving_average" -> {"ma_" \o ToString(a.window) \o "h"}
    [] name = "calculate_rsi" -> {"rsi"}
    [] name = "calculate_bollinger_bands" -> {"bb_middle", "bb_upper", "bb_lower"}
    [] name = "calculate_macd" -> {"macd", "macd_signal", "macd_hist"}

RowOrders(frame) ==
  LET n == Len(frame)
      orders == {f \in [1..n -> 1..n] : \A a, b \in 1..n : a # b => f[a] # f[b]}
  IN {[i \in 1..n |-> frame[f[i]]] : f \in orders}

\* C16: for distinct timestamps in any row order, each function returns its
\* rows in ascending timestamp order, one per input row, and the output is
\* the same for every permutation of the input rows.
C16_SortedAndOrderIndependent ==
  fn # "none" =>
    /\ Ascending(out)
    /\ Len(out) = Len(df_before)
    /\ InputRows(out) = InputRows(df_before)
    /\ \A g \in RowOrders(df_before) : AnalysisOf(fn, args, g) = out

\* the Bollinger bands of three rows given in descending timestamp order
C16_Witness ==
  /\ Called("calculate_bollinger_bands")
  /\ Len(df_before) = 3
  /\ df_before[1].timestamp > df_before[2].timestamp
  /\ df_before[2].timestamp > df_before[3].timestamp
  /\ Ascending(out)
  /\ out[1].price_usd # out[3].price_usd

\* ------------------------------------------------------------------ claims, raw history
HistDone == hist_pc = "done"
HistReturned == hist_pc = "done" /\ hist_result = "returned"
\* the rows of raw_bitcoin_prices that the call in progress has committed
CommittedByCall == raw \ kept

C18_ExistingBucketsNeverRewritten ==
  \A p \in SeqProcs :
    AggDone(p) =>
      /\ pre[p].hourly \subseteq hourly
      /\ \A r \in wrote[p] : BucketsOf(pre[p].hourly, r.timestamp) = {}

\* after a refresh of the raw history an aggregation has ended without
\* error, and a bucket of an hour inside its days differs from the OHLCV of
\* the ticks now stored for the hour
C18_Witness ==
  \E p \in SeqProcs :
    /\ AggOk(p) /\ backfills > 0
    /\ \E r \in pre[p].hourly :
         /\ r \in hourly
         /\ TicksOfHour(raw, r.timestamp) # {}
         /\ \E t \in TicksOfHour(raw, r.timestamp) :
              WithinLookback(t.timestamp, pre[p].clock, days[p])
         /\ ~CorrectBucket(r, raw)

\* C20 as claimed: the value fetch_and_store_historical_bitcoin_data returns
\* equals the number of raw ticks the call committed, on every path.
C20_ReturnsCommittedCount ==
  HistReturned => records_inserted = Cardinality(CommittedByCall)

\* ------------------------------------------------------------------ claims, API
\* the positions of the requests in the log of a call
Requests == {i \in 1..Len(log) : log[i].event = "get"}
Waits == {i \in 1..Len(log) : log[i].event = "sleep"}
FetchOver == fetch_pc = "done"
RetriesAsClaimed ==
  /\ Cardinality(Requests) <= retry_count
  /\ \A i \in Requests : log[i].exception = NoException => i = Len(log)
  /\ FetchOver =>
       /\ \A i \in Waits :
            /\ log[i].seconds = retry_delay
            /\ i - 1 \in Requests /\ i + 1 \in Requests
       /\ fetch_result = "returned" =>
            (log # <<>> /\ log[Len(log)].event = "get"
             /\ log[Len(log)].exception = NoException)
       /\ fetch_result = "raised" =>
            /\ Cardinality(Requests) = retry_count
            /\ \A i \in Requests : log[i].exception # NoException
            /\ retry_count > 0 =>
                 (log[Len(log)].event = "get" /\ raised = log[Len(log)].exception)

\* C19: a call of fetch_bitcoin_data_from_coingecko(retry_count, retry_delay)
\* ends after at most retry_count requests: it returns at the first request
\* that succeeds and makes no other, it waits retry_delay only between two
\* requests and never after the last, and after retry_count failed requests
\* it raises the exception of the last of them.
C19_RetriesBoundedThenRaisesLast ==
  /\ []RetriesAsClaimed
  /\ (fetch_pc # "idle") ~> FetchOver

\* three requests have failed with two waits between them, and the call has
\* raised the exception of the third, which differs from that of the second
C19_Witness ==
  /\ FetchOver /\ fetch_result = "raised"
  /\ retry_count = 3 /\ retry_delay = 1
  /\ Len(log) = 5 /\ Waits = {2, 4}
  /\ raised = log[5].exception
  /\ log[5].exception.kind # log[3].exception.kind

\* the API has not been called yet, or its answer is being inserted
HistAfterDelete == hist_pc \in {"fetch", "insert"}
\* the call has ended after a failure of the API call or of the inserts
HistFailed == hist_pc = "done" /\ hist_failure # "none"

\* C21: in fetch_and_store_historical_bitcoin_data a DELETE that succeeds is
\* committed before the API is called, and a failure of the API call or of
\* the inserts is caught and not raised: the function returns normally, and
\* raw_bitcoin_prices is empty when the DELETE was committed and holds
\* exactly the old ticks when the DELETE had failed; no new tick is stored.
C21_FailureLeavesEmptyOrOldTicks ==
  /\ (HistAfterDelete /\ cleared) => raw = {}
  /\ HistFailed =>
       /\ hist_result = "returned"
       /\ cleared => raw = {}
       /\ ~cleared => raw = hist_pre.raw

\* C21 as claimed: after a failure of the API call or of the inserts the
\* function returns normally and raw_bitcoin_prices is empty.
C21_FailureLeavesEmpty ==
  /\ (HistAfterDelete /\ cleared) => raw = {}
  /\ HistFailed => (hist_result = "returned" /\ raw = {})

\* ticks were stored, the DELETE was committed, one datapoint was inserted
\* and a later insert or the commit failed: the call has returned and the
\* table is empty
C21_Witness ==
  /\ HistFailed /\ hist_failure = "insert" /\ cleared
  /\ hist_pre.raw # {} /\ records_inserted > 0
  /\ hist_result = "returned" /\ raw = {}

\* ------------------------------------------------------------------ claims, pool
\* C22 as claimed: in any interleaving of get_db_connection_pool calls at
\* most one pool is ever created, every call that returns gives the one pool
\* whatever max_connections it passed, and a failed creation leaves
\* _connection_pool unset.
C22_PoolInitializedOnce ==
  /\ Len(made) <= 1
  /\ \A t \in Procs :
       /\ pool_result[t] = "returned" => (pool_obj[t] = 1 /\ pool = 1)
       /\ (pool_result[t] = "raised" /\ made = <<>>) => pool = None

====
